---- MODULE Spec2Model ----
(***************************************************************************)
(* State-machine model of src/1-Slideshow/1-Slideshow.cpp (CYD PhotoFrame): *)
(* the Arduino main task (setup/loop), the AsyncTCP network task that runs  *)
(* every HTTP handler, and the playWAVTask FreeRTOS tasks, all sharing the  *)
(* SD card, the display, xSpiMutex and the slideshow globals.               *)
(***************************************************************************)
EXTENDS Integers, Sequences, FiniteSets, TLC

(* ------------------------------ bounds -------------------------------- *)
\* seconds of wall-clock time explored after setup() has finished
MaxTicks == 2
\* names posted in one /delete_files request
MaxBatch == 2
\* modulus of the observation counter of ws.textAll("update") calls
NotifyMod == 2
\* HTTP requests the server takes up in one run
MaxRequests == 2
\* button edges in one run
MaxPresses == 2

(* ------------------------- program constants -------------------------- *)
\* int X = 10;
DefaultX == 10
\* millis() when setup() reaches the SD-card section: delay(10000) + delay(1000)
BootTime == 11
\* width of uint16_t / int16_t / uint32_t
Two16 == 65536
Two15 == 32768

(* ------------------------------ tasks --------------------------------- *)
\* the Arduino loopTask running setup() and loop()
Main == 0
\* the AsyncTCP task on which every AsyncWebServer callback runs
Net == 1
\* every request starts at most one playWAVTask
PlayTasks == 2 .. (1 + MaxRequests)
Tasks == {Main, Net} \cup PlayTasks

(* --------------------------- file names ------------------------------- *)
ImgA == <<"a", ".", "j", "p", "g">>
ImgB == <<"b", ".", "J", "P", "G">>
Txt == <<"n", ".", "t", "x", "t">>
Music == <<"m", "u", "s", "i", "c", ".", "w", "a", "v">>
\* String currentImageName = "";  also "no entry" of a directory scan
NoName == <<>>
\* a free (deleted) directory slot
FreeSlot == <<"?">>

\* toupper() on the characters that occur in file names
Upper(c) ==
  CASE c = "a" -> "A" [] c = "b" -> "B" [] c = "c" -> "C" [] c = "g" -> "G"
    [] c = "i" -> "I" [] c = "j" -> "J" [] c = "m" -> "M" [] c = "n" -> "N"
    [] c = "p" -> "P" [] c = "s" -> "S" [] c = "t" -> "T" [] c = "u" -> "U"
    [] c = "v" -> "V" [] c = "w" -> "W" [] c = "x" -> "X"
    [] OTHER -> c

\* strcasecmp(name + strlen(name) - 3, "JPG") == 0
IsJpg(n) ==
  /\ Len(n) >= 3
  /\ Upper(n[Len(n) - 2]) = "J"
  /\ Upper(n[Len(n) - 1]) = "P"
  /\ Upper(n[Len(n)]) = "G"

DigitChar(d) ==
  CASE d = 0 -> "0" [] d = 1 -> "1" [] d = 2 -> "2" [] d = 3 -> "3" [] d = 4 -> "4"
    [] d = 5 -> "5" [] d = 6 -> "6" [] d = 7 -> "7" [] d = 8 -> "8" [] OTHER -> "9"

RECURSIVE Digits(_)
Digits(k) == IF k < 10 THEN <<DigitChar(k)>> ELSE Append(Digits(k \div 10), DigitChar(k % 10))

\* the k-th image of a card that was filled with numbered images "k.jpg"
BulkName(k) == Digits(k) \o <<".", "j", "p", "g">>

(* ---------------------------- integer widths --------------------------- *)
ToUint16(v) == v % Two16
ToInt16(v) == IF v % Two16 >= Two15 THEN (v % Two16) - Two16 ELSE v % Two16
\* C++ remainder: the sign follows the dividend
CRem(a, b) == IF a >= 0 THEN a % b ELSE 0 - ((0 - a) % b)

VARIABLES
  slideshowActive, currentIndex, fileCount, timer, buttonPressed, sdMounted,
  currentImageName, X, xSpiMutex, holding, pc, ret, targetIndex, name,
  cardBulk, cardDir, audioMode, rootOpen, display, updatesSent, now, stream,
  upName, batch, deletionSuccess, posted, deleteLog, served, presses, hist

vars == <<slideshowActive, currentIndex, fileCount, timer, buttonPressed, sdMounted,
          currentImageName, X, xSpiMutex, holding, pc, ret, targetIndex, name,
          cardBulk, cardDir, audioMode, rootOpen, display, updatesSent, now, stream,
          upName, batch, deletionSuccess, posted, deleteLog, served, presses, hist>>

\* groups of variables left alone together
slideVars == <<slideshowActive, currentIndex, fileCount, timer, buttonPressed, X>>
lockVars == <<xSpiMutex, holding>>
cardVars == <<cardBulk, cardDir, sdMounted, audioMode, rootOpen>>
netVars == <<stream, upName, batch, deletionSuccess, posted, deleteLog, served>>
localVars == <<targetIndex, name>>
viewVars == <<currentImageName, display, updatesSent>>
envVars == <<now, presses>>

(* ------------------------------ the card ------------------------------ *)
\* eligible entries of the directory part, in enumeration order
RECURSIVE JpgOf(_)
JpgOf(dir) ==
  IF dir = <<>> THEN <<>>
  ELSE IF IsJpg(Head(dir)) THEN <<Head(dir)>> \o JpgOf(Tail(dir)) ELSE JpgOf(Tail(dir))

\* the counting loop of setup() and handleFileUpload(): every entry whose last
\* three characters are "JPG", fileCount++ on a uint16_t
CountJpg(bulk, dir) == ToUint16(bulk + Len(JpgOf(dir)))

\* the entry loadImage's scan stops at: ordinal idx among the eligible entries
NameAt(bulk, dir, idx) ==
  IF idx < bulk THEN BulkName(idx)
  ELSE IF idx - bulk < Len(JpgOf(dir)) THEN JpgOf(dir)[idx - bulk + 1]
  ELSE NoName

OnCard(n) ==
  \/ \E i \in DOMAIN cardDir : cardDir[i] = n
  \/ \E k \in 0 .. (cardBulk - 1) : BulkName(k) = n

\* a create that always makes a new directory entry
AppendEntry(dir, n) == Append(dir, n)

\* open(..., O_WRITE | O_CREAT | O_TRUNC): an existing entry keeps its slot, a
\* new one takes the first free slot of the directory
CreateEntry(dir, n) ==
  IF \E i \in DOMAIN dir : dir[i] = n THEN dir
  ELSE IF \E i \in DOMAIN dir : dir[i] = FreeSlot
    THEN LET i == CHOOSE j \in DOMAIN dir :
                    /\ dir[j] = FreeSlot
                    /\ \A l \in DOMAIN dir : dir[l] = FreeSlot => j <= l
         IN [dir EXCEPT ![i] = n]
  ELSE Append(dir, n)

\* sd.remove(): the entry's slot becomes free
RemoveEntry(dir, n) == [i \in DOMAIN dir |-> IF dir[i] = n THEN FreeSlot ELSE dir[i]]

(* --------------------------- the display ------------------------------ *)
BootScreen == <<"boot">>
ErrorScreen == <<"error">>
Black == <<"black">>
Partial == <<"partial">>

(* ------------------------------ xSpiMutex ----------------------------- *)
\* a take that does not wait for the mutex (a zero timeout whose result is ignored)
TakeNoWait(t) ==
  /\ xSpiMutex' = 0
  /\ holding' = [holding EXCEPT ![t] = @ + 1]

\* xSemaphoreTake(xSpiMutex, portMAX_DELAY): blocks until the mutex is free
Take(t) ==
  /\ xSpiMutex = 1
  /\ xSpiMutex' = 0
  /\ holding' = [holding EXCEPT ![t] = @ + 1]

\* xSemaphoreGive(xSpiMutex)
Give(t) ==
  /\ xSpiMutex' = 1
  /\ holding' = [holding EXCEPT ![t] = @ - 1]

Alive == pc[Main] # "crashed"

Goto(t, l) == pc' = [pc EXCEPT ![t] = l]

(* ------------------------- initial state ------------------------------ *)
\* directory contents at power-up
InitialDirs == {<<>>, <<ImgA, ImgB, Music>>}

\* the state when setup() reaches "if (fileCount == 0) error(...)"
InitWith(bulk, dir, mountOk) ==
  /\ slideshowActive = TRUE
  /\ currentIndex = 0
  /\ fileCount = IF mountOk THEN CountJpg(bulk, dir) ELSE 0
  /\ timer = 0
  /\ buttonPressed = FALSE
  /\ sdMounted = mountOk
  /\ currentImageName = NoName
  /\ X = DefaultX
  /\ xSpiMutex = 1
  /\ holding = [t \in Tasks |-> 0]
  /\ pc = [t \in Tasks |-> IF t = Main THEN "setup" ELSE IF t = Net THEN "idle" ELSE "dead"]
  /\ ret = [t \in Tasks |-> IF t = Main THEN "loop" ELSE IF t = Net THEN "idle" ELSE "dead"]
  /\ targetIndex = [t \in Tasks |-> 0]
  /\ name = [t \in Tasks |-> NoName]
  /\ cardBulk = bulk
  /\ cardDir = dir
  /\ audioMode = FALSE
  /\ rootOpen = mountOk
  /\ display = BootScreen
  /\ updatesSent = 0
  /\ now = BootTime
  /\ stream = "none"
  /\ upName = NoName
  /\ batch = <<>>
  /\ deletionSuccess = TRUE
  /\ posted = <<>>
  /\ deleteLog = <<>>
  /\ served = 0
  /\ presses = 0
  /\ hist = [phase |-> "run", index |-> 0, upload |-> FALSE, late |-> FALSE]

Init == \E dir \in InitialDirs, mountOk \in BOOLEAN : InitWith(0, dir, mountOk)

(* ------------------- loadImage / decodeJpeg (any task) ---------------- *)
\* what the directory scan of loadImage finds for ordinal idx
ScanResults(idx) ==
  IF ~rootOpen THEN {NoName}
  ELSE IF sdMounted THEN {NameAt(cardBulk, cardDir, idx)}
  ELSE {NoName, NameAt(cardBulk, cardDir, idx)}

\* outcomes of jpeg.open(name, ...)
OpenResults(n) == IF OnCard(n) THEN BOOLEAN ELSE {FALSE}

\* outcomes of jpeg.decode(...)
DecodeResults == BOOLEAN

Return(t) ==
  /\ Goto(t, ret[t])
  /\ name' = [name EXCEPT ![t] = NoName]
  /\ targetIndex' = [targetIndex EXCEPT ![t] = 0]

\* loadImage lines 168-171
ClampIndex(idx, count) == IF idx >= count THEN 0 ELSE idx

\* a loadImage without the slideshowActive test of line 168
LiEnterNoCheck(t) ==
  /\ Alive
  /\ pc[t] = "li_enter"
  /\ targetIndex' = [targetIndex EXCEPT ![t] = ClampIndex(@, fileCount)]
  /\ Goto(t, "li_scan")
  /\ UNCHANGED <<slideVars, lockVars, cardVars, netVars, viewVars, name, ret, envVars, hist>>

LiEnter(t) ==
  /\ Alive
  /\ pc[t] = "li_enter"
  /\ IF ~slideshowActive
       THEN Return(t)
       ELSE /\ targetIndex' = [targetIndex EXCEPT ![t] = ClampIndex(@, fileCount)]
            /\ Goto(t, "li_scan")
            /\ UNCHANGED name
  /\ UNCHANGED <<slideVars, lockVars, cardVars, netVars, viewVars, ret, envVars, hist>>

\* loadImage lines 172-180 and 189-193
LiScan(t) ==
  /\ Alive
  /\ pc[t] = "li_scan"
  /\ \E found \in ScanResults(targetIndex[t]) :
       IF found = NoName
         THEN Return(t) /\ UNCHANGED currentImageName
         ELSE /\ currentImageName' = found
              /\ name' = [name EXCEPT ![t] = found]
              /\ Goto(t, "dj_check")
              /\ UNCHANGED targetIndex
  /\ UNCHANGED <<slideVars, lockVars, cardVars, netVars, display, updatesSent, ret, envVars, hist>>

\* decodeJpeg line 197
DjCheck(t) ==
  /\ Alive
  /\ pc[t] = "dj_check"
  /\ Goto(t, IF slideshowActive THEN "dj_take" ELSE "li_notify")
  /\ UNCHANGED <<slideVars, lockVars, cardVars, netVars, viewVars, localVars, ret, envVars, hist>>

\* decodeJpeg line 199
DjTake(t) ==
  /\ Alive
  /\ pc[t] = "dj_take"
  /\ Take(t)
  /\ Goto(t, "dj_open")
  /\ UNCHANGED <<slideVars, cardVars, netVars, viewVars, localVars, ret, envVars, hist>>

\* decodeJpeg lines 200-204
DjOpen(t) ==
  /\ Alive
  /\ pc[t] = "dj_open"
  /\ \E ok \in OpenResults(name[t]) :
       IF ok
         THEN /\ display' = Black
              /\ Goto(t, "dj_decode")
              /\ UNCHANGED lockVars
         ELSE /\ Give(t)
              /\ Goto(t, "li_notify")
              /\ UNCHANGED display
  /\ UNCHANGED <<slideVars, cardVars, netVars, currentImageName, updatesSent, localVars,
                 ret, envVars, hist>>

\* decodeJpeg lines 205-207
DjDecode(t) ==
  /\ Alive
  /\ pc[t] = "dj_decode"
  /\ \E ok \in DecodeResults : display' = IF ok THEN name[t] ELSE Partial
  /\ Give(t)
  /\ Goto(t, "li_notify")
  /\ UNCHANGED <<slideVars, cardVars, netVars, currentImageName, updatesSent, localVars,
                 ret, envVars, hist>>

\* loadImage lines 182-187
LiNotify(t) ==
  /\ Alive
  /\ pc[t] = "li_notify"
  /\ updatesSent' = (updatesSent + 1) % NotifyMod
  /\ Return(t)
  /\ UNCHANGED <<slideVars, lockVars, cardVars, netVars, currentImageName, display,
                 ret, envVars, hist>>

LoadImage(t) ==
  \/ LiEnter(t)
  \/ LiScan(t)
  \/ DjCheck(t)
  \/ DjTake(t)
  \/ DjOpen(t)
  \/ DjDecode(t)
  \/ LiNotify(t)

(* ------------------------------ main task ----------------------------- *)
\* setup lines 1449-1451
Setup ==
  /\ Alive
  /\ pc[Main] = "setup"
  /\ display' = IF fileCount = 0 THEN ErrorScreen ELSE display
  /\ currentIndex' = 0
  /\ targetIndex' = [targetIndex EXCEPT ![Main] = 0]
  /\ ret' = [ret EXCEPT ![Main] = "loop"]
  /\ Goto(Main, "li_enter")
  /\ UNCHANGED <<slideshowActive, fileCount, timer, buttonPressed, X, lockVars, cardVars,
                 netVars, currentImageName, updatesSent, name, envVars, hist>>

\* a + m > 2^32 for 0 <= a, m < 2^31, computed on 16-bit limbs
Exceeds32(a, m) ==
  LET high == (a \div Two16) + (m \div Two16) + (((a % Two16) + (m % Two16)) \div Two16)
      low == ((a % Two16) + (m % Two16)) % Two16
  IN high > Two16 \/ (high = Two16 /\ low > 0)

\* (millis() - timer > X * 1000) with time in seconds: the int X * 1000 is converted
\* to uint32_t, so a negative X compares as 2^32 - |X * 1000|
Expired(t, base, x) ==
  IF x >= 0 THEN (t - base) * 1000 > x * 1000
  ELSE Exceeds32((t - base) * 1000, (0 - x) * 1000)

\* the advance condition without the fileCount > 0 guard of line 1455
AdvanceDueAnyCount == Expired(now, timer, X) \/ buttonPressed

\* loop lines 1455-1456
AdvanceDue == fileCount > 0 /\ (Expired(now, timer, X) \/ buttonPressed)

\* loop lines 1455-1456, and 1464-1467 when nothing is due
LoopCheck ==
  /\ Alive
  /\ pc[Main] = "loop"
  /\ Goto(Main, IF AdvanceDue THEN "loop_adv" ELSE "loop")
  /\ UNCHANGED <<slideVars, lockVars, cardVars, netVars, viewVars, localVars, ret, envVars, hist>>

\* (currentIndex + 1) % fileCount stored in an int16_t
AdvanceIndex(idx, count) == ToInt16(CRem(idx + 1, count))

\* loop lines 1457-1458
LoopAdvance ==
  /\ Alive
  /\ pc[Main] = "loop_adv"
  /\ IF fileCount = 0
       THEN /\ Goto(Main, "crashed")
            /\ UNCHANGED <<currentIndex, targetIndex, ret>>
       ELSE /\ currentIndex' = AdvanceIndex(currentIndex, fileCount)
            /\ targetIndex' = [targetIndex EXCEPT ![Main] = ToUint16(currentIndex')]
            /\ ret' = [ret EXCEPT ![Main] = "loop_reset"]
            /\ Goto(Main, "li_enter")
  /\ UNCHANGED <<slideshowActive, fileCount, timer, buttonPressed, X, lockVars, cardVars,
                 netVars, viewVars, name, envVars, hist>>

\* the end of an advance that resets the timer but leaves the button latch set
LoopResetKeepsLatch ==
  /\ Alive
  /\ pc[Main] = "loop_reset"
  /\ timer' = now
  /\ Goto(Main, "loop")
  /\ UNCHANGED <<slideshowActive, currentIndex, fileCount, buttonPressed, X, lockVars, cardVars,
                 netVars, viewVars, localVars, ret, envVars, hist>>

\* loop lines 1459-1460
LoopReset ==
  /\ Alive
  /\ pc[Main] = "loop_reset"
  /\ timer' = now
  /\ buttonPressed' = FALSE
  /\ hist' = [hist EXCEPT !.late = FALSE]
  /\ Goto(Main, "loop")
  /\ UNCHANGED <<slideshowActive, currentIndex, fileCount, X, lockVars, cardVars, netVars,
                 viewVars, localVars, ret, envVars>>

(* ----------------------------- environment ---------------------------- *)
\* the main loop is between the condition of line 1456 and the end of line 1460
InAdvance ==
  \/ pc[Main] \in {"loop_adv", "loop_reset"}
  \/ /\ pc[Main] \in {"li_enter", "li_scan", "dj_check", "dj_take", "dj_open", "dj_decode",
                       "li_notify"}
     /\ ret[Main] = "loop_reset"

\* buttonInt lines 121-123.  hist.late records, for the properties, that the
\* latch was set while the main loop was inside an advance
ButtonInt ==
  /\ Alive
  /\ ~buttonPressed
  /\ presses < MaxPresses
  /\ presses' = presses + 1
  /\ buttonPressed' = TRUE
  /\ hist' = [hist EXCEPT !.late = InAdvance]
  /\ UNCHANGED <<slideshowActive, currentIndex, fileCount, timer, X, lockVars, cardVars,
                 netVars, viewVars, localVars, pc, ret, now>>

\* one second passes on millis()
Tick ==
  /\ Alive
  /\ now < BootTime + MaxTicks
  /\ now' = now + 1
  /\ UNCHANGED <<slideVars, lockVars, cardVars, netVars, viewVars, localVars, pc, ret, presses, hist>>

(* ----------------------- stopSlideshow / restartSlideshow ------------- *)
\* stopSlideshow line 151.  hist records, for the properties, the suspension
\* protocol as the callers see it: the index at the call, and the phase
SsFlag(t) ==
  /\ Alive
  /\ pc[t] = "ss_flag"
  /\ slideshowActive' = FALSE
  /\ hist' = [phase |-> "stopping", index |-> currentIndex, upload |-> FALSE,
              late |-> hist.late]
  /\ Goto(t, "ss_take")
  /\ UNCHANGED <<currentIndex, fileCount, timer, buttonPressed, X, lockVars, cardVars,
                 netVars, viewVars, localVars, ret, envVars>>

\* stopSlideshow line 152
SsTake(t) ==
  /\ Alive
  /\ pc[t] = "ss_take"
  /\ Take(t)
  /\ Goto(t, "ss_give")
  /\ UNCHANGED <<slideVars, cardVars, netVars, viewVars, localVars, ret, envVars, hist>>

\* stopSlideshow lines 153-154
SsGive(t) ==
  /\ Alive
  /\ pc[t] = "ss_give"
  /\ Give(t)
  /\ Goto(t, "ss_delay")
  /\ UNCHANGED <<slideVars, cardVars, netVars, viewVars, localVars, ret, envVars, hist>>

\* stopSlideshow lines 155-157: delay(500), then back to the handler that called it
SsDelay(t) ==
  /\ Alive
  /\ pc[t] = "ss_delay"
  /\ hist' = [hist EXCEPT !.phase = "suspended"]
  /\ Goto(t, ret[t])
  /\ UNCHANGED <<slideVars, lockVars, cardVars, netVars, viewVars, localVars, ret, envVars>>

StopSlideshow(t) ==
  \/ SsFlag(t)
  \/ SsTake(t)
  \/ SsGive(t)
  \/ SsDelay(t)

\* where restartSlideshow's caller continues: a handler returns to the server,
\* playWAVTask goes on to vTaskDelete(NULL)
AfterRestart(t) == IF t = Net THEN "idle" ELSE "dead"

\* restartSlideshow lines 161-162
RestartSlideshow(t) ==
  /\ Alive
  /\ pc[t] = "rs"
  /\ slideshowActive' = TRUE
  /\ targetIndex' = [targetIndex EXCEPT ![t] = ToUint16(currentIndex)]
  /\ ret' = [ret EXCEPT ![t] = AfterRestart(t)]
  /\ hist' = [phase |-> "run", index |-> 0, upload |-> FALSE, late |-> hist.late]
  /\ Goto(t, "li_enter")
  /\ UNCHANGED <<currentIndex, fileCount, timer, buttonPressed, X, lockVars, cardVars,
                 netVars, viewVars, name, envVars>>

(* ------------------------------ playWAVTask --------------------------- *)
FreePlayTasks == {p \in PlayTasks : pc[p] = "dead"}

\* xTaskCreatePinnedToCore(playWAVTask, ...): the new task starts at playWAV
CreatePlayTask(creator, next) ==
  LET p == CHOOSE q \in FreePlayTasks : \A r \in FreePlayTasks : q <= r
  IN pc' = [pc EXCEPT ![creator] = next, ![p] = "pw_take"]

\* playWAV line 241
PwTake(p) ==
  /\ Alive
  /\ pc[p] = "pw_take"
  /\ Take(p)
  /\ Goto(p, "pw_switch")
  /\ UNCHANGED <<slideVars, cardVars, netVars, viewVars, localVars, ret, envVars, hist>>

\* outcomes of SD.begin(SD_CS, sdSpi) and of sd.begin(sdSpiConfig)
MountResults == BOOLEAN

\* a switch to audio mode that keeps the mutex for the playback
PwSwitchKeepsLock(p) ==
  /\ Alive
  /\ pc[p] = "pw_switch"
  /\ sdMounted' = FALSE
  /\ \E ok \in MountResults :
       /\ audioMode' = (audioMode \/ ok)
       /\ Goto(p, IF ok THEN "pw_begin" ELSE "rs")
  /\ UNCHANGED <<slideVars, lockVars, cardBulk, cardDir, rootOpen, netVars, viewVars, localVars,
                 ret, envVars, hist>>

\* playWAV lines 244-255
PwSwitch(p) ==
  /\ Alive
  /\ pc[p] = "pw_switch"
  /\ sdMounted' = FALSE
  /\ \E ok \in MountResults :
       /\ audioMode' = (audioMode \/ ok)
       /\ Goto(p, IF ok THEN "pw_begin" ELSE "rs")
  /\ Give(p)
  /\ UNCHANGED <<slideVars, cardBulk, cardDir, rootOpen, netVars, viewVars, localVars,
                 ret, envVars, hist>>

\* outcomes of wav->begin(file, out) on "/music.wav"
BeginResults == IF OnCard(Music) /\ audioMode THEN BOOLEAN ELSE {FALSE}

\* playWAV lines 258-270
PwBegin(p) ==
  /\ Alive
  /\ pc[p] = "pw_begin"
  /\ \E ok \in BeginResults : Goto(p, IF ok THEN "pw_stream" ELSE "rs")
  /\ UNCHANGED <<slideVars, lockVars, cardVars, netVars, viewVars, localVars, ret, envVars, hist>>

\* playWAV lines 273-284: the stream runs until wav->loop() fails or is exhausted
PwStream(p) ==
  /\ Alive
  /\ pc[p] = "pw_stream"
  /\ Goto(p, "pw_retake")
  /\ UNCHANGED <<slideVars, lockVars, cardVars, netVars, viewVars, localVars, ret, envVars, hist>>

\* playWAV line 286
PwRetake(p) ==
  /\ Alive
  /\ pc[p] = "pw_retake"
  /\ Take(p)
  /\ Goto(p, "pw_restore")
  /\ UNCHANGED <<slideVars, cardVars, netVars, viewVars, localVars, ret, envVars, hist>>

\* checkAndMountSDCard lines 222-235: the values sdMounted may have afterwards
CheckAndMount(mounted) == IF mounted THEN {TRUE} ELSE MountResults

\* playWAV lines 289-299
PwRestore(p) ==
  /\ Alive
  /\ pc[p] = "pw_restore"
  /\ audioMode' = FALSE
  /\ sdMounted' \in CheckAndMount(sdMounted)
  /\ Give(p)
  /\ Goto(p, "rs")
  /\ UNCHANGED <<slideVars, cardBulk, cardDir, rootOpen, netVars, viewVars, localVars,
                 ret, envVars, hist>>

\* playWAVTask lines 305-309
PlayWAVTask(p) ==
  \/ PwTake(p)
  \/ PwSwitch(p)
  \/ PwBegin(p)
  \/ PwStream(p)
  \/ PwRetake(p)
  \/ PwRestore(p)
  \/ RestartSlideshow(p)

(* --------------------------- network handlers ------------------------- *)
\* a request is dispatched when the task is between callbacks
NetIdle == Alive /\ pc[Net] = "idle"

\* taking up one more request
Accept ==
  /\ NetIdle
  /\ served < MaxRequests
  /\ served' = served + 1

\* handlePlayMusicRequest line 314
PlayMusicRequest ==
  /\ Accept
  /\ ret' = [ret EXCEPT ![Net] = "pm_create"]
  /\ Goto(Net, "ss_flag")
  /\ UNCHANGED <<slideVars, lockVars, cardVars, stream, upName, batch, deletionSuccess, posted, deleteLog, viewVars, localVars, envVars, hist>>

\* handlePlayMusicRequest lines 372-383
PmCreate ==
  /\ Alive
  /\ pc[Net] = "pm_create"
  /\ CreatePlayTask(Net, "idle")
  /\ ret' = [ret EXCEPT ![Net] = "idle"]
  /\ UNCHANGED <<slideVars, lockVars, cardVars, netVars, viewVars, localVars, envVars, hist>>

\* file names a client uploads
UploadNames == {ImgB, Txt}

\* outcomes of file.open("/" + filename, O_WRITE | O_CREAT | O_TRUNC)
CreateResults == IF sdMounted THEN BOOLEAN ELSE {FALSE}

\* /upload_file upload callback, index == 0: lines 766-768
UploadRequest ==
  /\ Accept
  /\ \E fn \in UploadNames, ok \in CreateResults :
       IF ok
         THEN /\ cardDir' = CreateEntry(cardDir, fn)
              /\ upName' = fn
              /\ Goto(Net, "up_write")
              /\ UNCHANGED ret
         ELSE /\ ret' = [ret EXCEPT ![Net] = "fu_reset"]
              /\ Goto(Net, "ss_flag")
              /\ UNCHANGED <<cardDir, upName>>
  /\ UNCHANGED <<slideVars, lockVars, cardBulk, sdMounted, audioMode, rootOpen, stream,
                 batch, deletionSuccess, posted, deleteLog, viewVars, localVars, envVars, hist>>

\* /upload_file upload callback lines 769-770, then handleFileUpload line 391
UpWrite ==
  /\ Alive
  /\ pc[Net] = "up_write"
  /\ upName' = NoName
  /\ ret' = [ret EXCEPT ![Net] = "fu_reset"]
  /\ Goto(Net, "ss_flag")
  /\ UNCHANGED <<slideVars, lockVars, cardVars, stream, batch, deletionSuccess, posted, deleteLog, served, viewVars,
                 localVars, envVars, hist>>

\* handleFileUpload lines 449-453
FuReset ==
  /\ Alive
  /\ pc[Net] = "fu_reset"
  /\ fileCount' = 0
  /\ hist' = [hist EXCEPT !.upload = TRUE]
  /\ Goto(Net, "fu_count")
  /\ UNCHANGED <<slideshowActive, currentIndex, timer, buttonPressed, X, lockVars, cardVars,
                 netVars, viewVars, localVars, ret, envVars>>

\* what the counting loop over root finds
CountResults ==
  IF ~rootOpen THEN {0}
  ELSE IF sdMounted THEN {CountJpg(cardBulk, cardDir)}
  ELSE {0, CountJpg(cardBulk, cardDir)}

\* handleFileUpload lines 454-463
FuCount ==
  /\ Alive
  /\ pc[Net] = "fu_count"
  /\ fileCount' \in CountResults
  /\ currentIndex' = 0
  /\ Goto(Net, "fu_exists")
  /\ UNCHANGED <<slideshowActive, timer, buttonPressed, X, lockVars, cardVars, netVars,
                 viewVars, localVars, ret, envVars, hist>>

\* outcomes of sd.exists("/music.wav")
ExistsResults(n) ==
  IF ~OnCard(n) THEN {FALSE} ELSE IF sdMounted THEN {TRUE} ELSE BOOLEAN

\* handleFileUpload lines 466-481
FuExists ==
  /\ Alive
  /\ pc[Net] = "fu_exists"
  /\ \E ex \in ExistsResults(Music) :
       IF ex THEN CreatePlayTask(Net, "idle") ELSE Goto(Net, "rs")
  /\ UNCHANGED <<slideVars, lockVars, cardVars, netVars, viewVars, localVars, ret, envVars, hist>>

\* file names a client posts to /delete_files
DeleteNames == {ImgB, Txt}

RECURSIVE SeqsUpTo(_, _)
SeqsUpTo(S, n) ==
  IF n = 0 THEN {<<>>}
  ELSE SeqsUpTo(S, n - 1) \cup {Append(q, x) : q \in SeqsUpTo(S, n - 1), x \in S}

DeleteBatches == SeqsUpTo(DeleteNames, MaxBatch) \ {<<>>}

\* /delete_files handler lines 880-881: posted holds the POST parameters of the
\* request, deleteLog the lines the handler prints for them
DeleteRequest ==
  /\ Accept
  /\ \E b \in DeleteBatches : batch' = b /\ posted' = b
  /\ deletionSuccess' = TRUE
  /\ deleteLog' = <<>>
  /\ Goto(Net, "df_exists")
  /\ UNCHANGED <<slideVars, lockVars, cardVars, stream, upName, viewVars, localVars, ret,
                 envVars, hist>>

\* the entry of deleteLog for one posted name
Logged(n, outcome) == [name |-> n, outcome |-> outcome]

\* a handler that gives up the batch at the first name it does not find
DfExistsStopAtMissing ==
  /\ Alive
  /\ pc[Net] = "df_exists"
  /\ IF batch = <<>>
       THEN Goto(Net, "idle") /\ UNCHANGED <<batch, deletionSuccess, deleteLog>>
       ELSE \E ex \in ExistsResults(Head(batch)) :
              IF ex
                THEN Goto(Net, "df_remove") /\ UNCHANGED <<batch, deletionSuccess, deleteLog>>
                ELSE /\ deletionSuccess' = FALSE
                     /\ deleteLog' = Append(deleteLog, Logged(Head(batch), "File not found"))
                     /\ batch' = <<>>
                     /\ UNCHANGED pc
  /\ UNCHANGED <<slideVars, lockVars, cardVars, stream, upName, posted, served, viewVars,
                 localVars, ret, envVars, hist>>

\* /delete_files handler lines 882-886, 893-898 and the response
DfExists ==
  /\ Alive
  /\ pc[Net] = "df_exists"
  /\ IF batch = <<>>
       THEN Goto(Net, "idle") /\ UNCHANGED <<batch, deletionSuccess, deleteLog>>
       ELSE \E ex \in ExistsResults(Head(batch)) :
              IF ex
                THEN Goto(Net, "df_remove") /\ UNCHANGED <<batch, deletionSuccess, deleteLog>>
                ELSE /\ deletionSuccess' = FALSE
                     /\ deleteLog' = Append(deleteLog, Logged(Head(batch), "File not found"))
                     /\ batch' = Tail(batch)
                     /\ UNCHANGED pc
  /\ UNCHANGED <<slideVars, lockVars, cardVars, stream, upName, posted, served, viewVars,
                 localVars, ret, envVars, hist>>

\* outcomes of sd.remove(path) on an existing entry
RemoveResults == BOOLEAN

\* /delete_files handler lines 887-892
DfRemove ==
  /\ Alive
  /\ pc[Net] = "df_remove"
  /\ \E ok \in RemoveResults :
       IF ok
         THEN /\ cardDir' = RemoveEntry(cardDir, Head(batch))
              /\ deleteLog' = Append(deleteLog, Logged(Head(batch), "File deleted"))
              /\ UNCHANGED deletionSuccess
         ELSE /\ deletionSuccess' = FALSE
              /\ deleteLog' = Append(deleteLog, Logged(Head(batch), "Failed to delete file"))
              /\ UNCHANGED cardDir
  /\ batch' = Tail(batch)
  /\ Goto(Net, "df_exists")
  /\ UNCHANGED <<slideVars, lockVars, cardBulk, sdMounted, audioMode, rootOpen, stream,
                 upName, posted, served, viewVars, localVars, ret, envVars, hist>>

\* /current_image handler lines 1153-1158 (the 404 answer changes no state)
CurrentImageRequest ==
  /\ Accept
  /\ currentImageName # NoName
  /\ Goto(Net, "ci_take")
  /\ UNCHANGED <<slideVars, lockVars, cardVars, stream, upName, batch, deletionSuccess, posted, deleteLog, viewVars, localVars, ret, envVars, hist>>

\* /current_image handler line 1158
CiTake ==
  /\ Alive
  /\ pc[Net] = "ci_take"
  /\ Take(Net)
  /\ Goto(Net, "ci_open")
  /\ UNCHANGED <<slideVars, cardVars, netVars, viewVars, localVars, ret, envVars, hist>>

\* outcomes of file->open(currentImageName.c_str(), O_RDONLY)
ReadOpenResults(n) == IF OnCard(n) THEN BOOLEAN ELSE {FALSE}

\* /current_image handler lines 1160-1182
CiOpen ==
  /\ Alive
  /\ pc[Net] = "ci_open"
  /\ \E ok \in ReadOpenResults(currentImageName) :
       IF ok
         THEN stream' = "open" /\ UNCHANGED lockVars
         ELSE Give(Net) /\ UNCHANGED stream
  /\ Goto(Net, "idle")
  /\ UNCHANGED <<slideVars, cardVars, upName, batch, deletionSuccess, posted, deleteLog, served, viewVars, localVars,
                 ret, envVars, hist>>

\* the chunk callback, lines 1169-1177, on the terminal chunk (bytesRead == 0);
\* the chunks before it change no state
StreamLastChunk ==
  /\ NetIdle
  /\ stream = "open"
  /\ stream' = "none"
  /\ Give(Net)
  /\ UNCHANGED <<slideVars, cardVars, upName, batch, deletionSuccess, posted, deleteLog, served, viewVars, localVars,
                 pc, ret, envVars, hist>>

\* the client closes the connection before the terminal chunk: the callback is
\* never called again
StreamAbort ==
  /\ Alive
  /\ stream = "open"
  /\ stream' = "aborted"
  /\ UNCHANGED <<slideVars, lockVars, cardVars, upName, batch, deletionSuccess, posted, deleteLog, served, viewVars,
                 localVars, pc, ret, envVars, hist>>

\* String::toInt(): optional sign, then leading decimal digits, else 0
DigitValue(c) ==
  CASE c = "0" -> 0 [] c = "1" -> 1 [] c = "2" -> 2 [] c = "3" -> 3 [] c = "4" -> 4
    [] c = "5" -> 5 [] c = "6" -> 6 [] c = "7" -> 7 [] c = "8" -> 8 [] c = "9" -> 9
    [] OTHER -> 0 - 1

RECURSIVE LeadingDigits(_, _)
LeadingDigits(s, acc) ==
  IF s = <<>> \/ DigitValue(Head(s)) < 0 THEN acc
  ELSE LeadingDigits(Tail(s), acc * 10 + DigitValue(Head(s)))

ToInt(s) ==
  IF s # <<>> /\ Head(s) = "-" THEN 0 - LeadingDigits(Tail(s), 0)
  ELSE IF s # <<>> /\ Head(s) = "+" THEN LeadingDigits(Tail(s), 0)
  ELSE LeadingDigits(s, 0)

\* values of the "speed" parameter a client posts
SpeedInputs == {<<"1">>, <<"0">>, <<"-", "1">>, <<"a">>}

\* /set-speed handler lines 629-634
SetSpeedRequest ==
  /\ Accept
  /\ \E v \in SpeedInputs : X' = ToInt(v)
  /\ X' # X
  /\ UNCHANGED <<slideshowActive, currentIndex, fileCount, timer, buttonPressed, lockVars,
                 cardVars, stream, upName, batch, deletionSuccess, posted, deleteLog, viewVars, localVars, pc, ret, envVars, hist>>

\* /play-music: handlePlayMusicRequest
NetPlay ==
  \/ PlayMusicRequest
  \/ PmCreate
  \/ StopSlideshow(Net)

\* /current_image and its chunked response
NetImage ==
  \/ CurrentImageRequest
  \/ CiTake
  \/ CiOpen
  \/ StreamLastChunk
  \/ StreamAbort

\* /upload_file: the upload callback, then handleFileUpload
NetUpload ==
  \/ UploadRequest
  \/ UpWrite
  \/ FuReset
  \/ FuCount
  \/ FuExists
  \/ RestartSlideshow(Net)

\* /delete_files
NetDelete ==
  \/ DeleteRequest
  \/ DfExists
  \/ DfRemove

\* setup() and loop() with everything loadImage does, in whatever task
MainTask ==
  \/ Setup
  \/ LoopCheck
  \/ LoopAdvance
  \/ LoopReset
  \/ \E t \in Tasks : LoadImage(t)

Next ==
  \/ MainTask
  \/ NetPlay
  \/ NetImage
  \/ NetUpload
  \/ NetDelete
  \/ SetSpeedRequest
  \/ \E p \in PlayTasks : PlayWAVTask(p)
  \/ ButtonInt
  \/ Tick

\* the whole program
Spec == Init /\ [][Next]_vars

\* the slideshow with /play-music and /current_image clients and the button
PlayNext ==
  \/ MainTask
  \/ NetPlay
  \/ NetImage
  \/ \E p \in PlayTasks : PlayWAVTask(p)
  \/ ButtonInt

PlaySpec == Init /\ [][PlayNext]_vars

\* the slideshow with /delete_files clients and the button
DeleteNext ==
  \/ MainTask
  \/ NetDelete
  \/ ButtonInt

DeleteSpec == Init /\ [][DeleteNext]_vars

\* the steps of one task: the main loop, the server task's callbacks (a pending
\* request is not a step the scheduler owes), a playWAVTask
TaskStep(t) ==
  IF t = Main
    THEN Setup \/ LoopCheck \/ LoopAdvance \/ LoopReset \/ LoadImage(Main)
    ELSE IF t = Net
      THEN StopSlideshow(Net) \/ PmCreate \/ CiTake \/ CiOpen \/ StreamLastChunk
      ELSE PlayWAVTask(t) \/ LoadImage(t)

\* the slideshow with /play-music and /current_image clients, no button
FairPlayNext ==
  \/ MainTask
  \/ NetPlay
  \/ NetImage
  \/ \E p \in PlayTasks : PlayWAVTask(p)

\* the FreeRTOS scheduler: a task that is ready again and again runs, a task
\* blocked in xSemaphoreTake gets the mutex if it is free again and again, and
\* every client drains its stream when the server task offers a chunk
FairPlaySpec == Init /\ [][FairPlayNext]_vars /\ \A t \in Tasks : SF_vars(TaskStep(t))


\* catalog sizes on both sides of the int16_t range of currentIndex
WideSizes == {1, 3, 32768, 40000, 65535}

\* indices the slideshow has reached by correct advances: below the catalog
\* size and within int16_t
WideStarts(count) == {i \in {0, 2, 32766, 32767} : i < count}

\* the value currentIndex has after as many advances from 0 as the card holds
\* images, when that many do not fit an int16_t
WrappedStarts(count) == IF count > Two15 THEN {ToInt16(count)} ELSE {}

\* the state when loop() has rendered index i of a card of numbered images and
\* reset its timer
RunningAt(bulk, i) ==
  /\ slideshowActive = TRUE
  /\ currentIndex = i
  /\ fileCount = CountJpg(bulk, <<>>)
  /\ timer = BootTime
  /\ buttonPressed = FALSE
  /\ sdMounted = TRUE
  /\ currentImageName = BulkName(ClampIndex(ToUint16(i), CountJpg(bulk, <<>>)))
  /\ X = DefaultX
  /\ xSpiMutex = 1
  /\ holding = [t \in Tasks |-> 0]
  /\ pc = [t \in Tasks |-> IF t = Main THEN "loop" ELSE IF t = Net THEN "idle" ELSE "dead"]
  /\ ret = [t \in Tasks |-> IF t = Main THEN "loop_reset" ELSE IF t = Net THEN "idle" ELSE "dead"]
  /\ targetIndex = [t \in Tasks |-> 0]
  /\ name = [t \in Tasks |-> NoName]
  /\ cardBulk = bulk
  /\ cardDir = <<>>
  /\ audioMode = FALSE
  /\ rootOpen = TRUE
  /\ display = BulkName(ClampIndex(ToUint16(i), CountJpg(bulk, <<>>)))
  /\ updatesSent = (ToUint16(i) + 1) % NotifyMod
  /\ now = BootTime
  /\ stream = "none"
  /\ upName = NoName
  /\ batch = <<>>
  /\ deletionSuccess = TRUE
  /\ posted = <<>>
  /\ deleteLog = <<>>
  /\ served = 0
  /\ presses = 0
  /\ hist = [phase |-> "run", index |-> 0, upload |-> FALSE, late |-> FALSE]

\* power-up with a large card, or the slideshow already at some index of it
WideInit ==
  \/ \E bulk \in WideSizes, mountOk \in BOOLEAN : InitWith(bulk, <<>>, mountOk)
  \/ \E bulk \in WideSizes : \E i \in WideStarts(bulk) \cup WrappedStarts(bulk) : RunningAt(bulk, i)

\* the slideshow alone: the main task and the button
WideNext ==
  \/ MainTask
  \/ ButtonInt

WideSpec == WideInit /\ [][WideNext]_vars


\* the slideshow with the button, the passing of time and /set-speed clients
TimerNext ==
  \/ MainTask
  \/ ButtonInt
  \/ Tick
  \/ SetSpeedRequest

TimerSpec == Init /\ [][TimerNext]_vars


\* the slideshow with /upload_file clients and the playback an upload starts
UploadNext ==
  \/ MainTask
  \/ NetUpload
  \/ StopSlideshow(Net)
  \/ \E p \in PlayTasks : PlayWAVTask(p)

UploadSpec == Init /\ [][UploadNext]_vars


\* the file operations by themselves: /upload_file and /delete_files clients, the
\* playback an upload starts and the rendering a restart does, while the main
\* loop is not scheduled
CatalogNext ==
  \/ NetUpload
  \/ NetDelete
  \/ StopSlideshow(Net)
  \/ \E p \in PlayTasks : PlayWAVTask(p)
  \/ \E t \in Tasks : LoadImage(t)

CatalogSpec == Init /\ [][CatalogNext]_vars


(* ====================== properties of the program ===================== *)
\* tasks that have taken xSpiMutex and not yet given it back
Holders == {t \in Tasks : holding[t] > 0}

\* C1: in every reachable state at most one task holds xSpiMutex.
C1_SingleHolder == Cardinality(Holders) <= 1

\* C1 witness: the network task holds the mutex for an open /current_image
\* stream while the main loop waits in decodeJpeg and a playWAV task waits too
C1_Witness ==
  /\ holding[Net] = 1
  /\ stream = "open"
  /\ pc[Main] = "dj_take"
  /\ \E p \in PlayTasks : pc[p] = "pw_take"

\* storage-bus operations in progress: <<task, operation>>
BusOps ==
  {<<t, "scan">> : t \in {u \in Tasks : pc[u] = "li_scan"}}
    \cup {<<t, "decode">> : t \in {u \in Tasks : pc[u] \in {"dj_open", "dj_decode"}}}
    \cup {<<t, "audio">> : t \in {u \in PlayTasks : pc[u] = "pw_stream"}}
    \cup {<<Net, "rebuild">> : t \in {u \in {Net} : pc[u] = "fu_count"}}
    \cup {<<Net, "upload">> : t \in {u \in {Net} : pc[u] = "up_write"}}
    \cup {<<Net, "delete">> : t \in {u \in {Net} : pc[u] = "df_remove"}}

\* C2: at most one of catalog enumeration, frame decode, audio streaming,
\* upload write and delete is in progress at any instant.
C2_NoOverlap == Cardinality(BusOps) <= 1

\* tasks inside the decode/paint section of decodeJpeg
Decoding == {t \in Tasks : pc[t] \in {"dj_open", "dj_decode"}}

\* C3: after stopSlideshow() has returned and until restartSlideshow() is
\* called, no task is inside the decode/paint section of decodeJpeg.
C3_NoDecodeWhileSuspended == hist.phase = "suspended" => Decoding = {}

\* C4: with no upload during the suspension, restartSlideshow() is called with
\* currentIndex equal to its value when stopSlideshow() was called.
C4_ResumeSameIndex ==
  \A t \in Tasks :
    (pc[t] = "rs" /\ hist.phase = "suspended" /\ ~hist.upload) => currentIndex = hist.index

\* playWAVTask instances between their creation and their vTaskDelete
AlivePlayTasks == {p \in PlayTasks : pc[p] # "dead"}

\* C5: at most one playWAVTask is alive at any instant.
C5_SingleFlight == Cardinality(AlivePlayTasks) <= 1

\* playWAV tasks that have switched the bus to audio mode and not restored it
InAudioPhase == {p \in PlayTasks : pc[p] \in {"pw_begin", "pw_stream", "pw_retake", "pw_restore"}}

\* C6: while a playWAV task is between its switch to audio mode and its
\* restore of catalog mode, slideshowActive is false.
C6_SuspendedDuringAudio == InAudioPhase # {} => ~slideshowActive

\* C7: whenever a playWAVTask is about to run restartSlideshow(), playWAV has
\* torn the audio-mode handle down and remounted the catalog-mode handle.
C7_RestoredBeforeRestart ==
  \A p \in PlayTasks : pc[p] = "rs" => (sdMounted /\ ~audioMode)

\* handlePlayMusicRequest has suspended the slideshow and is inside stopSlideshow
PlayMusicPending == pc[Net] = "ss_take" /\ ret[Net] = "pm_create" /\ ~slideshowActive

\* C8: under fair scheduling every /play-music request that has suspended the
\* slideshow is eventually followed by a state with slideshowActive = true.
C8_EventuallyResumed == PlayMusicPending ~> slideshowActive

\* C9: every advance of the main loop over a non-empty catalog of any size
\* that fileCount can hold leaves currentIndex = (currentIndex + 1) mod
\* fileCount and asks loadImage for exactly that index (the statement for k
\* consecutive advances is k instances of this one).
C9_AdvanceIsModular ==
  [][(fileCount > 0 /\ LoopAdvance) =>
       (/\ currentIndex' = (currentIndex + 1) % fileCount
        /\ targetIndex'[Main] = currentIndex')]_vars

\* C10: a main-loop iteration that finds fileCount = 0 changes neither
\* currentIndex, currentImageName nor the timer baseline, paints nothing and
\* sends no notification.
C10_IdleWhenEmpty ==
  [][(fileCount = 0 /\ LoopCheck) =>
       (/\ pc'[Main] = "loop"
        /\ UNCHANGED <<currentIndex, currentImageName, timer, display, updatesSent>>)]_vars

\* C10 witness: the main loop is at its check with an empty catalog while a
\* timer expiry and a button edge are both pending
C10_Witness ==
  /\ pc[Main] = "loop"
  /\ fileCount = 0
  /\ buttonPressed
  /\ Expired(now, timer, X)

\* C11: a main-loop tick that finds a button edge and a timer expiry both
\* pending advances once: currentIndex changes only in the single LoopAdvance
\* step that follows the check, and when the tick ends the latch is clear, the
\* timer baseline is the present, and nothing is due any more.
C11_OneAdvancePerTick ==
  /\ [][(pc'[Main] = "loop_adv" /\ pc[Main] # "loop_adv") => pc[Main] = "loop"]_vars
  /\ [][currentIndex' # currentIndex =>
          (pc[Main] = "loop_adv" /\ pc'[Main] = "li_enter"
             /\ currentIndex' = AdvanceIndex(currentIndex, fileCount))]_vars
  /\ [][(pc[Main] = "loop_reset" /\ pc'[Main] # "loop_reset") =>
          (pc'[Main] = "loop" /\ ~buttonPressed' /\ timer' = now' /\ ~AdvanceDue')]_vars

\* C11 witness: the advance of a tick that found both events pending is being
\* completed
C11_Witness ==
  /\ pc[Main] = "loop_reset"
  /\ fileCount > 0
  /\ currentIndex = 1
  /\ buttonPressed
  /\ Expired(now, timer, X)

\* C12: whenever the main loop is at its check with the elapsed time greater
\* than or equal to a positive interval X, the check finds an advance due.
C12_AdvanceAtInterval ==
  (pc[Main] = "loop" /\ fileCount > 0 /\ X > 0 /\ now - timer >= X) => AdvanceDue

\* C13: ws.textAll("update") is sent only when the frame named by loadImage
\* has been decoded and painted.
C13_NotifyOnlyAfterPaint == \A t \in Tasks : pc[t] = "li_notify" => display = name[t]

\* C14: once a /current_image request is over (stream drained to its terminal
\* chunk, or aborted by the client) the server task no longer holds xSpiMutex.
C14_LockReleasedAfterStream == (pc[Net] = "idle" /\ stream # "open") => holding[Net] = 0

\* C15: while the upload callback writes the file, stopSlideshow() has been
\* called and has returned, and the server task holds xSpiMutex.
C15_UploadWritesSuspendedAndLocked ==
  pc[Net] = "up_write" => (hist.phase = "suspended" /\ holding[Net] > 0)

\* C16: the frame rendered by the restartSlideshow() that ends an upload (called
\* by handleFileUpload itself or by the playWAVTask it started) is index 0 of a
\* non-empty catalog.
C16_RendersFirstAfterUpload ==
  \A t \in Tasks : (pc[t] = "rs" /\ hist.upload /\ fileCount > 0) => currentIndex = 0

C18_RemoveMountedAndLocked == pc[Net] = "df_remove" => (sdMounted /\ holding[Net] > 0)

\* C19: when a /delete_files request completes, every posted name has been
\* attempted in order, whatever happened to the names before it; the overall
\* result is success exactly when every posted name was found and removed; and
\* every name reported deleted is gone from storage.
C19_BatchOutcome ==
  [][(pc[Net] = "df_exists" /\ pc'[Net] = "idle") =>
       (/\ Len(deleteLog) = Len(posted)
        /\ \A i \in DOMAIN posted : deleteLog[i].name = posted[i]
        /\ deletionSuccess = (\A i \in DOMAIN deleteLog : deleteLog[i].outcome = "File deleted")
        /\ \A i \in DOMAIN deleteLog :
             deleteLog[i].outcome = "File deleted" => ~OnCard(deleteLog[i].name))]_vars

\* C19 witness: a batch naming an absent file and then b.JPG has completed: the
\* result is a failure and b.JPG is gone
C19_Witness ==
  /\ pc[Net] = "idle"
  /\ posted = <<Txt, ImgB>>
  /\ deleteLog = <<Logged(Txt, "File not found"), Logged(ImgB, "File deleted")>>
  /\ ~deletionSuccess
  /\ cardDir = <<ImgA, FreeSlot, Music>>

\* C20: when the main loop is about to advance and no upload or delete request
\* is being handled, fileCount is the number of eligible entries on the
\* mounted card.
C20_RebuiltAfterFileOps ==
  (pc[Main] = "loop_adv" /\ pc[Net] = "idle" /\ sdMounted /\ rootOpen)
    => fileCount = CountJpg(cardBulk, cardDir)

\* C21: the entry loadImage hands to decodeJpeg for the main loop is the
\* eligible entry at ordinal (index passed) mod fileCount, also when the index
\* passed is fileCount or more.
C21_SelectsModulo ==
  (pc[Main] = "dj_check" /\ fileCount > 0)
    => name[Main] = NameAt(cardBulk, cardDir, ToUint16(currentIndex) % fileCount)

\* tasks inside loadImage whose frame is not (or not yet) on the display
Unpainted ==
  {t \in Tasks : /\ pc[t] \in {"dj_check", "dj_take", "dj_open", "dj_decode", "li_notify"}
                 /\ display # name[t]}

\* C22: currentImageName is never the name of a frame that loadImage has
\* selected but that is not decoded and painted.
C22_NamePublishedAfterPaint == \A t \in Unpainted : currentImageName # name[t]

\* C23: a loadImage called while slideshowActive is false returns at once: it
\* takes no lock, paints nothing, leaves currentImageName alone and sends no
\* notification.
C23_RenderNoOpWhenStopped ==
  [][\A t \in Tasks :
       (pc[t] = "li_enter" /\ ~slideshowActive /\ pc'[t] # "li_enter") =>
         (/\ pc'[t] = ret[t]
          /\ UNCHANGED <<xSpiMutex, holding, display, currentImageName, updatesSent>>)]_vars

\* C23 witness: the main loop has advanced to index 1 while the slideshow was
\* stopped, and a.jpg is still the current image
C23_Witness ==
  /\ pc[Main] = "loop_reset"
  /\ ~slideshowActive
  /\ currentIndex = 1
  /\ currentImageName = ImgA
  /\ display = ImgA

\* C24: when decodeJpeg has returned to loadImage, the task no longer holds
\* xSpiMutex and the display is neither cleared nor partially painted.
C24_FailureKeepsFrame ==
  \A t \in Tasks : pc[t] = "li_notify" => (holding[t] = 0 /\ display \notin {Black, Partial})

\* C25: while nothing but the boot or error screen has ever been on the
\* display, no /current_image request goes on to take xSpiMutex or to stream.
C25_NotFoundBeforeFirstFrame ==
  display \in {BootScreen, ErrorScreen} =>
    (pc[Net] \notin {"ci_take", "ci_open"} /\ stream # "open")

\* C26: the step of restartSlideshow() leaves the advance timer at the present
\* time.
C26_ResumeResetsTimer ==
  [][(\E t \in Tasks : pc[t] = "rs" /\ pc'[t] = "li_enter") => timer' = now']_vars

\* C27: inside playWAV a playback task holds xSpiMutex exactly during the
\* switch to audio mode and the restore of catalog mode, never while it opens
\* or streams the audio file or waits to restore.
C27_LockOnlyToReconfigure ==
  \A p \in PlayTasks :
    /\ pc[p] \in {"pw_switch", "pw_restore"} => holding[p] = 1
    /\ pc[p] \in {"pw_take", "pw_begin", "pw_stream", "pw_retake", "rs"} => holding[p] = 0

\* C27 witness: a playback task is streaming while the server task holds the
\* mutex for a /current_image stream
C27_Witness ==
  /\ \E p \in PlayTasks : pc[p] = "pw_stream" /\ holding[p] = 0
  /\ holding[Net] = 1
  /\ stream = "open"

\* C28: the advance interval X is positive.
C28_IntervalPositive == X > 0

\* C29: at most one task is inside the painting section of decodeJpeg, and it
\* holds xSpiMutex.
C29_SinglePainter ==
  /\ Cardinality(Decoding) <= 1
  /\ \A t \in Decoding : holding[t] = 1

\* C29 witness: a playback task renders for restartSlideshow() while the main
\* loop waits in decodeJpeg for the mutex
C29_Witness ==
  /\ pc[Main] = "dj_take"
  /\ \E p \in PlayTasks : pc[p] = "dj_decode" /\ ret[p] = "dead"

\* C30: the main loop is never about to evaluate (currentIndex + 1) % fileCount
\* with fileCount = 0.
C30_NoModuloByZero == pc[Main] = "loop_adv" => fileCount > 0

\* C31: a handler of the server task that waits for xSpiMutex eventually
\* returns to the server, unless a client has abandoned its stream.
C31_HandlersReturn ==
  (pc[Net] \in {"ci_take", "ss_take"}) ~> (pc[Net] = "idle" \/ stream = "aborted")

\* C32: the end of an advance never clears a button latch that was set after
\* that advance's condition check, so every press is served by an advance
\* that begins after it.
C32_NoEdgeLost ==
  [][(pc[Main] = "loop_reset" /\ pc'[Main] = "loop") => ~(buttonPressed /\ hist.late)]_vars

\* C33: when setup() has rendered the first frame and hands over to loop(),
\* the timer baseline is the time of that render, so the first tick finds no
\* timer expiry.
C33_FirstTickWaits ==
  [][(pc[Main] = "li_notify" /\ display = name[Main] /\ ret[Main] = "loop"
        /\ pc'[Main] = "loop") =>
       (timer' = now' /\ ~Expired(now', timer', DefaultX))]_vars

====
